---------------------------- MODULE Spec2Model ----------------------------
(***************************************************************************)
(* A model of go-bsdiff: the diff generator (pkg/bsdiff: qsufsort, split,  *)
(* search, diffb, offtout), the patch applier (bspatch: patchb, offtin)    *)
(* and the in-memory sink (util.BufWriter).                                *)
(*                                                                         *)
(* The bzip2 codec is an external library; it is modelled as a lossless    *)
(* identity stream codec: the compressed form of a byte stream is the      *)
(* stream itself, and a decoder over a window of the patch yields the      *)
(* window's bytes and then io.EOF.                                         *)
(*                                                                         *)
(* A Go run-time panic (index or slice bounds out of range) is a value:    *)
(* every operator that indexes returns a record whose field fault names    *)
(* the array that was indexed out of bounds ("" when none was).            *)
(***************************************************************************)
EXTENDS Integers, Sequences, FiniteSets, TLC

(***************************************************************************)
(* Go's int is 64 bits wide.  A value of that type that comes from the     *)
(* bytes of a patch is held as four 16-bit limbs, least significant first, *)
(* in two's complement, so that additions wrap as they do in the program.  *)
(***************************************************************************)
Limb == 256 * 256

HalfLimb == Limb \div 2

W0 == <<0, 0, 0, 0>>

W1 == <<1, 0, 0, 0>>

Add64(a, b) ==
    LET s1 == a[1] + b[1]
        s2 == a[2] + b[2] + (s1 \div Limb)
        s3 == a[3] + b[3] + (s2 \div Limb)
        s4 == a[4] + b[4] + (s3 \div Limb)
    IN  <<s1 % Limb, s2 % Limb, s3 % Limb, s4 % Limb>>

Neg64(a) ==
    Add64(<<Limb - 1 - a[1], Limb - 1 - a[2], Limb - 1 - a[3], Limb - 1 - a[4]>>, W1)

Sub64(a, b) == Add64(a, Neg64(b))

IsNeg64(a) == a[4] >= HalfLimb

\* a < b as signed 64-bit integers
Lt64(a, b) ==
    IF IsNeg64(a) # IsNeg64(b) THEN IsNeg64(a)
    ELSE IF a[4] # b[4] THEN a[4] < b[4]
    ELSE IF a[3] # b[3] THEN a[3] < b[3]
    ELSE IF a[2] # b[2] THEN a[2] < b[2]
    ELSE a[1] < b[1]

Gt64(a, b) == Lt64(b, a)

\* int64(k) for a model integer k with |k| < 2^31
FromInt(k) ==
    IF k >= 0 THEN <<k % Limb, k \div Limb, 0, 0>>
    ELSE Neg64(<<(-k) % Limb, (-k) \div Limb, 0, 0>>)

\* the values a model integer can hold: |w| < 2^30
Small64(w) ==
    LET m == IF IsNeg64(w) THEN Neg64(w) ELSE w
    IN  m[4] = 0 /\ m[3] = 0 /\ m[2] < HalfLimb \div 2

ToInt(w) ==
    IF IsNeg64(w) THEN -(Neg64(w)[1] + Limb * Neg64(w)[2])
    ELSE w[1] + Limb * w[2]

\* y % 256 and y / 256 for y >= 0, y * 256 wrapping
Mod256(y) == y[1] % 256

Div256(y) ==
    <<(y[1] \div 256) + (y[2] % 256) * 256,
      (y[2] \div 256) + (y[3] % 256) * 256,
      (y[3] \div 256) + (y[4] % 256) * 256,
      y[4] \div 256>>

Mul256(y) ==
    <<(y[1] % 256) * 256,
      (y[2] % 256) * 256 + (y[1] \div 256),
      (y[3] % 256) * 256 + (y[2] \div 256),
      (y[4] % 256) * 256 + (y[3] \div 256)>>

(***************************************************************************)
(* offtout (bsdiff.go 297-330): the magnitude of x, least significant      *)
(* byte first, and the sign in bit 7 of byte 7.  x is not the minimum int. *)
(* A byte string is a sequence; the program's buf[k] is buf[k+1] here.     *)
(***************************************************************************)
\* lines 304-325: buf[k] = y % 256; y -= buf[k]; y = y / 256, for k = n..7
RECURSIVE OfftoutMag(_, _)
OfftoutMag(y, n) ==
    IF n = 0 THEN <<>>
    ELSE <<Mod256(y)>> \o OfftoutMag(Div256(Sub64(y, FromInt(Mod256(y)))), n - 1)

\* lines 299-303: y = -x or x
Abs64(x) == IF IsNeg64(x) THEN Neg64(x) ELSE x

\* lines 327-329: buf[7] |= 0x80 when x < 0
SignBit(m, neg) == IF neg /\ m[8] < 128 THEN [m EXCEPT ![8] = m[8] + 128] ELSE m

\* a slip: the sign bit is never set
OfftoutNoSign(x) == OfftoutMag(Abs64(x), 8)

offtout(x) == SignBit(OfftoutMag(Abs64(x), 8), IsNeg64(x))

(***************************************************************************)
(* offtin (bspatch 238-260): buf[7] & 0x7f is the top byte of the          *)
(* magnitude, buf[7] & 0x80 the sign.                                      *)
(***************************************************************************)
OfftinMag(buf) ==
    LET y7 == FromInt(buf[8] % 128)
        y6 == Add64(Mul256(y7), FromInt(buf[7]))
        y5 == Add64(Mul256(y6), FromInt(buf[6]))
        y4 == Add64(Mul256(y5), FromInt(buf[5]))
        y3 == Add64(Mul256(y4), FromInt(buf[4]))
        y2 == Add64(Mul256(y3), FromInt(buf[3]))
        y1 == Add64(Mul256(y2), FromInt(buf[2]))
        y0 == Add64(Mul256(y1), FromInt(buf[1]))
    IN  y0

\* lines 256-258: y = -y when buf[7] & 0x80 != 0
WithSign(y, neg) == IF neg THEN Neg64(y) ELSE y

offtin(buf) == WithSign(OfftinMag(buf), buf[8] >= 128)

(***************************************************************************)
(* Arrays and slices.  The program indexes from 0: At(a, i) is a[i].       *)
(***************************************************************************)
InRange(a, i) == 0 <= i /\ i < Len(a)

At(a, i) == a[i + 1]

Put(a, i, v) == [a EXCEPT ![i + 1] = v]

\* a[lo:] and a[lo:hi], for indices in bounds
SliceFrom(a, lo) == SubSeq(a, lo + 1, Len(a))

Slice(a, lo, hi) == SubSeq(a, lo + 1, hi)

Zeros(n) == [k \in 1..n |-> 0]

Min(a, b) == IF a < b THEN a ELSE b

Fault(s, what) == [s EXCEPT !.fault = what]

(***************************************************************************)
(* split (bsdiff.go 398-476).  s holds the arrays iii (I) and vvv (V) and  *)
(* the fault; the loops' counters are the operators' arguments or further  *)
(* fields.  A loop iteration that changes nothing repeats forever: the     *)
(* fault is then "hang".                                                   *)
(***************************************************************************)
\* vvv[iii[p] + h] can be read
KeyOk(s, p, h) == InRange(s.I, p) /\ InRange(s.V, At(s.I, p) + h)

Key(s, p, h) == At(s.V, At(s.I, p) + h)

KeyFault(s, p) == IF InRange(s.I, p) THEN "vvv" ELSE "iii"

Swap(a, p, q) == [a EXCEPT ![p + 1] = a[q + 1], ![q + 1] = a[p + 1]]

\* for i = 0; i < cnt; i++ { vvv[iii[base+i]] = val }   (418-420, 466-468)
SetRanks(s, base, cnt, val) ==
    LET idx == {base + i : i \in 0..(cnt - 1)} IN
    IF \E p \in idx : ~InRange(s.I, p) THEN Fault(s, "iii")
    ELSE IF \E p \in idx : ~InRange(s.V, At(s.I, p)) THEN Fault(s, "vvv")
    ELSE [s EXCEPT !.V = [r \in 1..Len(s.V) |->
              IF \E p \in idx : At(s.I, p) + 1 = r THEN val ELSE s.V[r]]]

\* the body of the loop of line 406 and its i++: lines 407-423
SmallBody(s, k, h) ==
    IF ~KeyOk(s, k + s.i, h) THEN Fault(s, KeyFault(s, k + s.i))
    ELSE
      LET v  == Key(s, k + s.i, h)
          x1 == IF v < s.x THEN v ELSE s.x
          j1 == IF v < s.x THEN 0 ELSE s.j
      IN  IF v = x1 /\ ~InRange(s.I, k + j1) THEN Fault(s, "iii")
          ELSE
            LET I1 == IF v = x1 THEN Swap(s.I, k + j1, k + s.i) ELSE s.I
                j2 == IF v = x1 THEN j1 + 1 ELSE j1
                s1 == SetRanks([s EXCEPT !.I = I1], k, j2, k + j2 - 1)
            IN  IF s1.fault # "" THEN s1
                ELSE IF j2 = 1 /\ ~InRange(s1.I, k) THEN Fault(s1, "iii")
                ELSE [s1 EXCEPT !.I = IF j2 = 1 THEN Put(s1.I, k, -1) ELSE s1.I,
                                !.x = x1, !.j = j2, !.i = j2 + 1]

RECURSIVE SmallInner(_, _, _, _)
SmallInner(s, k, lim, h) ==
    IF s.fault # "" \/ ~(k + s.i < lim) THEN s
    ELSE LET s1 == SmallBody(s, k, h)
         IN  IF s1 = s THEN Fault(s, "hang") ELSE SmallInner(s1, k, lim, h)

\* the loop of line 403: for k = start; k < start+ln; k += j
RECURSIVE SmallOuter(_, _, _, _)
SmallOuter(s, k, lim, h) ==
    IF s.fault # "" \/ ~(k < lim) THEN s
    ELSE IF ~KeyOk(s, k, h) THEN Fault(s, KeyFault(s, k))
    ELSE LET r == SmallInner([I |-> s.I, V |-> s.V, fault |-> "",
                              i |-> 1, j |-> 1, x |-> Key(s, k, h)], k, lim, h)
         IN  SmallOuter([I |-> r.I, V |-> r.V, fault |-> r.fault], k + r.j, lim, h)

\* the loop of line 443: for i < jj.  t: I, V, fault, i, j, k
RECURSIVE PartLow(_, _, _, _, _)
PartLow(t, jj, kk, x, h) ==
    IF t.fault # "" \/ ~(t.i < jj) THEN t
    ELSE IF ~KeyOk(t, t.i, h) THEN Fault(t, KeyFault(t, t.i))
    ELSE IF Key(t, t.i, h) < x THEN PartLow([t EXCEPT !.i = t.i + 1], jj, kk, x, h)
    ELSE IF Key(t, t.i, h) = x THEN
        IF ~InRange(t.I, jj + t.j) THEN Fault(t, "iii")
        ELSE PartLow([t EXCEPT !.I = Swap(t.I, t.i, jj + t.j), !.j = t.j + 1],
                     jj, kk, x, h)
    ELSE
        IF ~InRange(t.I, kk + t.k) THEN Fault(t, "iii")
        ELSE PartLow([t EXCEPT !.I = Swap(t.I, t.i, kk + t.k), !.k = t.k + 1],
                     jj, kk, x, h)

\* the loop of line 454: for jj+j < kk
RECURSIVE PartMid(_, _, _, _, _)
PartMid(t, jj, kk, x, h) ==
    IF t.fault # "" \/ ~(jj + t.j < kk) THEN t
    ELSE IF ~KeyOk(t, jj + t.j, h) THEN Fault(t, KeyFault(t, jj + t.j))
    ELSE IF Key(t, jj + t.j, h) = x THEN PartMid([t EXCEPT !.j = t.j + 1], jj, kk, x, h)
    ELSE
        IF ~InRange(t.I, kk + t.k) THEN Fault(t, "iii")
        ELSE PartMid([t EXCEPT !.I = Swap(t.I, jj + t.j, kk + t.k), !.k = t.k + 1],
                     jj, kk, x, h)

SmallLimit == 16

\* the state without the loop counters
Strip(t) == [I |-> t.I, V |-> t.V, fault |-> t.fault]

\* lines 469-471: if jj == kk-1 { iii[jj] = -1 }
MarkSingle(s, jj, kk) ==
    IF s.fault # "" \/ jj # kk - 1 THEN s
    ELSE IF ~InRange(s.I, jj) THEN Fault(s, "iii")
    ELSE [s EXCEPT !.I = Put(s.I, jj, -1)]

\* lines 466-468
RankMiddle(s, jj, kk) == IF s.fault # "" THEN s ELSE SetRanks(s, jj, kk - jj, kk - 1)

RECURSIVE split(_, _, _, _)

\* lines 462-464: if jj > start { split(iii, vvv, start, jj-start, h) }
SplitLower(s, start, jj, h) == IF jj > start THEN split(s, start, jj - start, h) ELSE s

\* lines 473-475: if start+ln > kk { split(iii, vvv, kk, start+ln-kk, h) }
SplitUpper(s, start, ln, kk, h) ==
    IF s.fault = "" /\ start + ln > kk THEN split(s, kk, start + ln - kk, h) ELSE s

\* lines 441-475, jj and kk being counted
SplitAround(s, start, ln, h, x, jj, kk) ==
    SplitUpper(
        MarkSingle(
            RankMiddle(
                SplitLower(
                    Strip(PartMid(PartLow([I |-> s.I, V |-> s.V, fault |-> "",
                                           i |-> start, j |-> 0, k |-> 0], jj, kk, x, h),
                                  jj, kk, x, h)),
                    start, jj, h),
                jj, kk),
            jj, kk),
        start, ln, kk, h)

\* lines 429-439: x is the pivot; jj and kk count the keys below and up to x
SplitLarge(s, start, ln, h, x) ==
    IF \E r \in start..(start + ln - 1) : ~KeyOk(s, r, h)
    THEN Fault(s, KeyFault(s, CHOOSE r \in start..(start + ln - 1) : ~KeyOk(s, r, h)))
    ELSE SplitAround(s, start, ln, h, x,
             start + Cardinality({r \in start..(start + ln - 1) : Key(s, r, h) < x}),
             start + Cardinality({r \in start..(start + ln - 1) : Key(s, r, h) <= x}))

split(s, start, ln, h) ==
    IF s.fault # "" THEN s
    ELSE IF ln < SmallLimit THEN SmallOuter(s, start, start + ln, h)
    ELSE IF ~KeyOk(s, start + (ln \div 2), h) THEN Fault(s, KeyFault(s, start + (ln \div 2)))
    ELSE SplitLarge(s, start, ln, h, Key(s, start + (ln \div 2), h))

(***************************************************************************)
(* qsufsort (bsdiff.go 332-396)                                            *)
(***************************************************************************)
\* buckets[c] after lines 338-349: the number of bytes of buf below c
BucketStart(buf, c) == Cardinality({p \in 1..Len(buf) : buf[p] < c})

\* buckets[c] after the loop of lines 352-355: the end of c's bucket
BucketEnd(buf, c) == Cardinality({p \in 1..Len(buf) : buf[p] <= c})

\* iii and vvv after lines 352-368
SortInit(buf) ==
    LET n    == Len(buf)
        slot(p) == BucketStart(buf, buf[p]) + Cardinality({r \in 1..p : buf[r] = buf[p]})
        single == {c \in {buf[p] : p \in 1..n} \ {0} :
                       BucketEnd(buf, c) = BucketEnd(buf, c - 1) + 1}
    IN  [I |-> [r \in 1..(n + 1) |->
                  IF r = 1 THEN -1
                  ELSE IF \E c \in single : BucketEnd(buf, c) = r - 1 THEN -1
                  ELSE (CHOOSE p \in 1..n : slot(p) = r - 1) - 1],
         V |-> [r \in 1..(n + 1) |-> IF r = n + 1 THEN 0 ELSE BucketEnd(buf, buf[r])],
         fault |-> ""]

\* lines 379-381: the sorted run before i is recorded
CloseRun(s, i, ln) == IF ln # 0 THEN [s EXCEPT !.I = Put(s.I, i - ln, -ln)] ELSE s

RECURSIVE SortPass(_, _, _, _, _)

\* lines 384-385: i += ln, after the split of ln2 entries; with ln2 = 0 nothing
\* changes and the loop repeats forever
AfterSplit(s2, i, ln2, h, n) ==
    IF s2.fault = "" /\ ln2 = 0 THEN Fault(s2, "hang")
    ELSE SortPass(s2, i + ln2, 0, h, n)

\* lines 382-383: ln = vvv[iii[i]] + 1 - i; split(iii, vvv, i, ln, h)
SplitGroup(s1, i, ln2, h, n) == AfterSplit(split(s1, i, ln2, h), i, ln2, h, n)

\* lines 382-385, the run recorded
SortGroup(s1, i, h, n) ==
    IF ~InRange(s1.I, i) THEN Fault(s1, "iii")
    ELSE IF ~InRange(s1.V, At(s1.I, i)) THEN Fault(s1, "vvv")
    ELSE SplitGroup(s1, i, At(s1.V, At(s1.I, i)) + 1 - i, h, n)

\* the loop of line 374: for i < bufzise+1, and lines 388-390
SortPass(s, i, ln, h, n) ==
    IF s.fault # "" THEN s
    ELSE IF ~(i < n + 1) THEN
        IF ln = 0 THEN s
        ELSE IF ~InRange(s.I, i - ln) THEN Fault(s, "iii")
        ELSE [s EXCEPT !.I = Put(s.I, i - ln, -ln)]
    ELSE IF ~InRange(s.I, i) THEN Fault(s, "iii")
    ELSE IF At(s.I, i) < 0 THEN SortPass(s, i - At(s.I, i), ln - At(s.I, i), h, n)
    ELSE IF ln # 0 /\ ~InRange(s.I, i - ln) THEN Fault(s, "iii")
    ELSE SortGroup(CloseRun(s, i, ln), i, h, n)

\* the loop of line 370: for h = 1; iii[0] != -(bufzise+1); h += h
RECURSIVE SortDoubling(_, _, _)
SortDoubling(s, h, n) ==
    IF s.fault # "" \/ At(s.I, 0) = -(n + 1) THEN s
    ELSE SortDoubling(SortPass(s, 0, 0, h, n), h + h, n)

\* lines 393-395: for i = 0; i < bufzise+1; i++ { iii[vvv[i]] = i }
SortFinish(s, n) ==
    IF s.fault # "" THEN s
    ELSE IF \E i \in 0..n : ~InRange(s.I, At(s.V, i)) THEN Fault(s, "iii")
    ELSE [s EXCEPT !.I = [r \in 1..(n + 1) |->
             IF \E i \in 0..n : At(s.V, i) = r - 1
             THEN CHOOSE i \in 0..n : At(s.V, i) = r - 1
                                      /\ \A i2 \in 0..n : At(s.V, i2) = r - 1 => i2 <= i
             ELSE s.I[r]]]

qsufsort(buf) == SortFinish(SortDoubling(SortInit(buf), 1, Len(buf)), Len(buf))

(***************************************************************************)
(* matchlen (bsdiff.go 284-295) and search (258-282).  q is the slice      *)
(* newbin[scan:]; the result is the match length, *pos and the fault.      *)
(***************************************************************************)
RECURSIVE MatchFrom(_, _, _)
MatchFrom(o, q, i) ==
    IF i < Len(o) /\ i < Len(q) /\ At(o, i) = At(q, i) THEN MatchFrom(o, q, i + 1) ELSE i

matchlen(o, q) == MatchFrom(o, q, 0)

\* bytes.Compare(a, b) < 0 for slices of one length
CompareLess(a, b) ==
    \E k \in 1..Len(a) : a[k] < b[k] /\ \A m \in 1..(k - 1) : a[m] = b[m]

\* oldbin[lo:] can be taken
SliceOk(a, lo) == 0 <= lo /\ lo <= Len(a)

RECURSIVE search(_, _, _, _, _)
search(I, old, q, st, en) ==
    IF en - st < 2 THEN
        IF ~InRange(I, st) \/ ~InRange(I, en) THEN [ln |-> 0, pos |-> 0, fault |-> "iii"]
        ELSE IF ~SliceOk(old, At(I, st)) \/ ~SliceOk(old, At(I, en))
             THEN [ln |-> 0, pos |-> 0, fault |-> "oldbin"]
        ELSE LET x == matchlen(SliceFrom(old, At(I, st)), q)
                 y == matchlen(SliceFrom(old, At(I, en)), q)
             IN  IF x > y THEN [ln |-> x, pos |-> At(I, st), fault |-> ""]
                 ELSE [ln |-> y, pos |-> At(I, en), fault |-> ""]
    ELSE
        LET x == st + ((en - st) \div 2) IN
        IF ~InRange(I, x) THEN [ln |-> 0, pos |-> 0, fault |-> "iii"]
        ELSE
          LET cmpln == Min(Len(old) - At(I, x), Len(q)) IN
          IF At(I, x) < 0 \/ cmpln < 0 THEN [ln |-> 0, pos |-> 0, fault |-> "oldbin"]
          ELSE IF CompareLess(Slice(old, At(I, x), At(I, x) + cmpln), Slice(q, 0, cmpln))
               THEN search(I, old, q, x, en)
               ELSE search(I, old, q, st, x)

(***************************************************************************)
(* util.BufWriter (bspatch/util 274-323): m is [buf, pos].                 *)
(***************************************************************************)
\* WriteAt (279-288): the sink after the write, and the fault of m.buf[off:]
WriteAt(m, p, off) ==
    LET minCap == off + Len(p)
        grown  == IF minCap > Len(m.buf)
                  THEN m.buf \o Zeros(minCap - Len(m.buf)) ELSE m.buf
    IN  IF off < 0 \/ off > Len(grown) THEN [buf |-> grown, pos |-> m.pos, fault |-> "buf"]
        ELSE [buf |-> [r \in 1..Len(grown) |->
                          IF r > off /\ r <= off + Len(p) THEN p[r - off] ELSE grown[r]],
              pos |-> m.pos, fault |-> ""]

\* Write (291-295)
Write(m, p) ==
    LET w == WriteAt(m, p, m.pos)
    IN  [w EXCEPT !.pos = IF w.fault = "" THEN m.pos + Len(p) ELSE m.pos]

(***************************************************************************)
(* diffb, the scan (bsdiff.go 109-132).  c holds scan, ln, pos, scsc,      *)
(* oldscore and the fault; lo is lastoffset.                               *)
(***************************************************************************)
\* the loop of line 117, whose first statement is scsc++
RECURSIVE ScscLoop(_, _, _, _, _)
ScscLoop(c, lim, lo, old, new) ==
    IF c.fault # "" \/ ~(c.scsc < lim) THEN c
    ELSE
      LET sc == c.scsc + 1 IN
      IF ~(sc + lo < Len(old)) THEN ScscLoop([c EXCEPT !.scsc = sc], lim, lo, old, new)
      ELSE IF ~InRange(old, sc + lo) THEN [c EXCEPT !.scsc = sc, !.fault = "oldbin"]
      ELSE IF ~InRange(new, sc) THEN [c EXCEPT !.scsc = sc, !.fault = "newbin"]
      ELSE ScscLoop([c EXCEPT !.scsc = sc,
                              !.oldscore = IF At(old, sc + lo) = At(new, sc)
                                           THEN c.oldscore + 1 ELSE c.oldscore],
                    lim, lo, old, new)

\* the number line 126 adds to oldscore
ScoreSlack == 8

\* the loop of line 113, whose first statement is scan++
RECURSIVE ScanLoop(_, _, _, _, _)
ScanLoop(c, I, lo, old, new) ==
    IF c.fault # "" \/ ~(c.scan < Len(new)) THEN c
    ELSE
      LET scan1 == c.scan + 1
          r     == search(I, old, SliceFrom(new, scan1), 0, Len(old))
      IN
      IF r.fault # "" THEN [c EXCEPT !.scan = scan1, !.fault = r.fault]
      ELSE
        LET c1 == ScscLoop([c EXCEPT !.scan = scan1, !.ln = r.ln, !.pos = r.pos],
                           scan1 + r.ln, lo, old, new)
        IN
        IF c1.fault # "" THEN c1
        ELSE IF (c1.ln = c1.oldscore /\ c1.ln # 0) \/ c1.ln > c1.oldscore + ScoreSlack THEN c1
        ELSE IF ~(scan1 + lo < Len(old)) THEN ScanLoop(c1, I, lo, old, new)
        ELSE IF ~InRange(old, scan1 + lo) THEN Fault(c1, "oldbin")
        ELSE IF ~InRange(new, scan1) THEN Fault(c1, "newbin")
        ELSE ScanLoop([c1 EXCEPT !.oldscore = IF At(old, scan1 + lo) = At(new, scan1)
                                              THEN c1.oldscore - 1 ELSE c1.oldscore],
                      I, lo, old, new)

\* lines 109-132 from the state dd of diffb's variables
ScanPhase(dd, I, old, new) ==
    ScanLoop([scan |-> dd.scan + dd.ln, ln |-> dd.ln, pos |-> dd.pos,
              scsc |-> dd.scan + dd.ln, oldscore |-> 0, fault |-> ""],
             I, dd.lastoffset, old, new)

(***************************************************************************)
(* diffb, the extensions of a match (bsdiff.go 136-187).  dd holds scan,   *)
(* pos, lastscan, lastpos after the scan.                                  *)
(***************************************************************************)
\* the loop of line 140.  f: s, Sf, lenf, i, fault
RECURSIVE FwdLoop(_, _, _, _)
FwdLoop(f, dd, old, new) ==
    IF f.fault # "" \/ ~(dd.lastscan + f.i < dd.scan /\ dd.lastpos + f.i < Len(old)) THEN f
    ELSE IF ~InRange(old, dd.lastpos + f.i) THEN Fault(f, "oldbin")
    ELSE IF ~InRange(new, dd.lastscan + f.i) THEN Fault(f, "newbin")
    ELSE
      LET s1 == IF At(old, dd.lastpos + f.i) = At(new, dd.lastscan + f.i)
                THEN f.s + 1 ELSE f.s
          i1 == f.i + 1
          up == s1 * 2 - i1 > f.Sf * 2 - f.lenf
      IN  FwdLoop([f EXCEPT !.s = s1, !.i = i1,
                            !.Sf = IF up THEN s1 ELSE f.Sf,
                            !.lenf = IF up THEN i1 ELSE f.lenf], dd, old, new)

\* the loop of line 155.  b: s, Sb, lenb, i, fault
RECURSIVE BackLoop(_, _, _, _)
BackLoop(b, dd, old, new) ==
    IF b.fault # "" \/ ~(dd.scan >= dd.lastscan + b.i /\ dd.pos >= b.i) THEN b
    ELSE IF ~InRange(old, dd.pos - b.i) THEN Fault(b, "oldbin")
    ELSE IF ~InRange(new, dd.scan - b.i) THEN Fault(b, "newbin")
    ELSE
      LET s1 == IF At(old, dd.pos - b.i) = At(new, dd.scan - b.i) THEN b.s + 1 ELSE b.s
          up == s1 * 2 - b.i > b.Sb * 2 - b.lenb
      IN  BackLoop([b EXCEPT !.s = s1, !.i = b.i + 1,
                             !.Sb = IF up THEN s1 ELSE b.Sb,
                             !.lenb = IF up THEN b.i ELSE b.lenb], dd, old, new)

\* the loop of line 171.  o: s, Ss, lens, i, fault
RECURSIVE OverlapLoop(_, _, _, _, _, _, _)
OverlapLoop(o, overlap, lenf, lenb, dd, old, new) ==
    IF o.fault # "" \/ ~(o.i < overlap) THEN o
    ELSE IF ~InRange(new, dd.lastscan + lenf - overlap + o.i)
            \/ ~InRange(new, dd.scan - lenb + o.i) THEN Fault(o, "newbin")
    ELSE IF ~InRange(old, dd.lastpos + lenf - overlap + o.i)
            \/ ~InRange(old, dd.pos - lenb + o.i) THEN Fault(o, "oldbin")
    ELSE
      LET s1 == IF At(new, dd.lastscan + lenf - overlap + o.i)
                   = At(old, dd.lastpos + lenf - overlap + o.i) THEN o.s + 1 ELSE o.s
          s2 == IF At(new, dd.scan - lenb + o.i) = At(old, dd.pos - lenb + o.i)
                THEN s1 - 1 ELSE s1
      IN  OverlapLoop([o EXCEPT !.s = s2, !.i = o.i + 1,
                                !.Ss = IF s2 > o.Ss THEN s2 ELSE o.Ss,
                                !.lens = IF s2 > o.Ss THEN o.i + 1 ELSE o.lens],
                      overlap, lenf, lenb, dd, old, new)

\* lines 136-187: lenf and lenb of the segment to emit
Extend(dd, old, new) ==
    LET f == FwdLoop([s |-> 0, Sf |-> 0, lenf |-> 0, i |-> 0, fault |-> ""], dd, old, new)
        b == IF dd.scan < Len(new)
             THEN BackLoop([s |-> 0, Sb |-> 0, lenb |-> 0, i |-> 1, fault |-> ""], dd, old, new)
             ELSE [s |-> 0, Sb |-> 0, lenb |-> 0, i |-> 1, fault |-> ""]
    IN
    IF f.fault # "" THEN [lenf |-> 0, lenb |-> 0, fault |-> f.fault]
    ELSE IF b.fault # "" THEN [lenf |-> 0, lenb |-> 0, fault |-> b.fault]
    ELSE IF dd.lastscan + f.lenf > dd.scan - b.lenb THEN
        LET overlap == (dd.lastscan + f.lenf) - (dd.scan - b.lenb)
            o == OverlapLoop([s |-> 0, Ss |-> 0, lens |-> 0, i |-> 0, fault |-> ""],
                             overlap, f.lenf, b.lenb, dd, old, new)
        IN  [lenf |-> f.lenf + o.lens - overlap, lenb |-> b.lenb - o.lens, fault |-> o.fault]
    ELSE [lenf |-> f.lenf, lenb |-> b.lenb, fault |-> ""]

(***************************************************************************)
(* diffb, the emission of a segment (bsdiff.go 190-217).  e is the result  *)
(* of Extend.  The result holds db, eb, the control triple and the fault.  *)
(***************************************************************************)
\* a byte minus a byte, as Go's uint8 subtraction
ByteSub(a, b) == (a - b + 256) % 256

\* a byte plus a byte, as Go's uint8 addition
ByteAdd(a, b) == (a + b) % 256

\* the loop of line 190
FillDiff(dd, lenf, dbuf, old, new) ==
    LET rng == 0..(lenf - 1) IN
    IF \E i \in rng : ~InRange(new, dd.lastscan + i) THEN [buf |-> dbuf, fault |-> "newbin"]
    ELSE IF \E i \in rng : ~InRange(old, dd.lastpos + i) THEN [buf |-> dbuf, fault |-> "oldbin"]
    ELSE IF \E i \in rng : ~InRange(dbuf, dd.dblen + i) THEN [buf |-> dbuf, fault |-> "db"]
    ELSE [buf |-> [r \in 1..Len(dbuf) |->
                     IF r - 1 - dd.dblen \in rng
                     THEN ByteSub(At(new, dd.lastscan + (r - 1 - dd.dblen)),
                                  At(old, dd.lastpos + (r - 1 - dd.dblen)))
                     ELSE dbuf[r]],
          fault |-> ""]

\* the loop of line 193
FillExtra(dd, lenf, cnt, ebuf, new) ==
    LET rng == 0..(cnt - 1) IN
    IF \E i \in rng : ~InRange(new, dd.lastscan + lenf + i) THEN [buf |-> ebuf, fault |-> "newbin"]
    ELSE IF \E i \in rng : ~InRange(ebuf, dd.eblen + i) THEN [buf |-> ebuf, fault |-> "eb"]
    ELSE [buf |-> [r \in 1..Len(ebuf) |->
                     IF r - 1 - dd.eblen \in rng
                     THEN At(new, dd.lastscan + lenf + (r - 1 - dd.eblen))
                     ELSE ebuf[r]],
          fault |-> ""]

\* a slip: the bytes given back to the next match are not taken off y
TripleNoBack(dd, e) ==
    [x |-> e.lenf,
     y |-> dd.scan - (dd.lastscan + e.lenf),
     z |-> (dd.pos - e.lenb) - (dd.lastpos + e.lenf)]

\* the control triple of lines 200-210
Triple(dd, e) ==
    [x |-> e.lenf,
     y |-> (dd.scan - e.lenb) - (dd.lastscan + e.lenf),
     z |-> (dd.pos - e.lenb) - (dd.lastpos + e.lenf)]

\* the 24 bytes lines 200-213 hand to the control stream's compressor
TripleBytes(tr) ==
    offtout(FromInt(tr.x)) \o offtout(FromInt(tr.y)) \o offtout(FromInt(tr.z))

\* "BSDIFF40"
Magic == <<66, 83, 68, 73, 70, 70, 52, 48>>

\* the header of lines 74-80
FirstHeader(new) ==
    Magic \o offtout(FromInt(0)) \o offtout(FromInt(0)) \o offtout(FromInt(Len(new)))

\* lines 225-255: the header with the control length, the diff block behind
\* the control block, and the header written over the first 32 bytes
Assemble(w, hdr, dbuf, dblen) ==
    LET ln   == Len(w.buf)
        hdr2 == SubSeq(hdr, 1, 8) \o offtout(FromInt(ln - 32)) \o SubSeq(hdr, 17, 32)
    IN  IF dblen < 0 \/ dblen > Len(dbuf) THEN [buf |-> w.buf, pos |-> w.pos, fault |-> "db"]
        ELSE LET w1 == Write(w, Slice(dbuf, 0, dblen))
             IN  IF w1.fault # "" THEN w1
                 ELSE Write([w1 EXCEPT !.pos = 0], hdr2)

(***************************************************************************)
(* The state.                                                              *)
(***************************************************************************)
VARIABLES
    pc,            \* where the call is: "diff", "scan", "emit", "apply", "loop",
                   \* "diffphase", "extraphase", "done", "error", "panic", "codec..."
    oldbin,        \* the old bytes
    newbin,        \* the new bytes (diff's input)
    iii,           \* the suffix array of oldbin
    d,             \* diffb's variables: scan, ln, lastscan, lastpos, lastoffset,
                   \* pos, oldscore, dblen, eblen
    db, eb,        \* diffb's diff and extra buffers
    pf,            \* diffb's BufWriter: buf, pos
    header,        \* diffb's header slice
    emitted,       \* history: the control triples diffb has written
    patch,         \* the bytes diffb returned, or the patch handed to apply
    p,             \* patchb's variables
    buf,           \* patchb's 8-byte buf
    readBuf,       \* patchb's readBuf
    readBufPatch,  \* patchb's readBufPatch
    res,           \* the sink: a BufWriter
    writes,        \* history: the sink writes [off, len] patchb has issued
    fault,         \* at: the step that panicked, what: the array; or the error
    num, enc, dec, \* the integer codec's input, offtout's bytes, offtin's value
    call,          \* the entry point of package bsdiff that runs diffb: "Bytes" or "Stream"
    rdr,           \* Stream's readers: the bytes behind oldbin and newbin
    offs,          \* putWriter's offs
    out            \* history: the slices Stream's writer was handed, in order

vars == <<pc, oldbin, newbin, iii, d, db, eb, pf, header, emitted, patch, p, buf,
          readBuf, readBufPatch, res, writes, fault, num, enc, dec, call, rdr, offs,
          out>>

diffVars == <<iii, d, db, eb, pf, header, emitted>>

applyVars == <<p, buf, readBuf, readBufPatch, res, writes>>

codecVars == <<num, enc, dec>>

streamVars == <<call, rdr, offs, out>>

(***************************************************************************)
(* Bounds of the model.                                                    *)
(***************************************************************************)
\* the bytes old and new are drawn from
Alphabet == {0, 1, 2, 3}

MaxOld == 2

MaxNew == 3

\* patchb's readBufSize is 64 * 1024; the model's chunks are this long
readBufSize == 2

BytesUpTo(n) == UNION {[1..k -> Alphabet] : k \in 0..n}

\* pairs long enough for a match of more than ScoreSlack bytes
LongOld == [k \in 1..10 |-> k]

LongPairs ==
    {<<LongOld, <<0>> \o SubSeq(LongOld, 1, 9) \o <<0>>>>,
     <<LongOld, <<1>> \o SubSeq(LongOld, 1, 9)>>,
     <<LongOld, SubSeq(LongOld, 1, 9)>>,
     <<LongOld, <<1, 2>> \o LongOld>>}

NoFault == [at |-> "", what |-> ""]

D0 == [scan |-> 0, ln |-> 0, lastscan |-> 0, lastpos |-> 0, lastoffset |-> 0,
       pos |-> 0, oldscore |-> 0, dblen |-> 0, eblen |-> 0]

P0 == [bzctrllen |-> 0, bzdatalen |-> 0, newsize |-> 0, newpos |-> 0, oldpos |-> W0,
       ctrl |-> <<W0, W0, W0>>, i |-> 0, cpos |-> 0, dpos |-> 0, epos |-> 0,
       starved |-> FALSE]

W00 == [buf |-> <<>>, pos |-> 0]

NoReaders == [old |-> <<>>, new |-> <<>>]

\* Stream is not the entry point
StreamIdle == rdr = NoReaders /\ offs = 0 /\ out = <<>>

InitRest ==
    /\ iii = <<>> /\ d = D0 /\ db = <<>> /\ eb = <<>> /\ pf = W00 /\ header = <<>>
    /\ emitted = <<>>
    /\ p = P0 /\ buf = Zeros(8) /\ readBuf = Zeros(readBufSize)
    /\ readBufPatch = Zeros(readBufSize) /\ res = W00 /\ writes = {}
    /\ fault = NoFault
    /\ num = W0 /\ enc = <<>> /\ dec = W0

\* Bytes(oldbs, newbs) of package bsdiff is called, and bspatch.Bytes on its result
Init ==
    /\ pc = "diff"
    /\ \E pair \in (BytesUpTo(MaxOld) \X BytesUpTo(MaxNew)) \cup LongPairs :
          oldbin = pair[1] /\ newbin = pair[2]
    /\ patch = <<>>
    /\ InitRest
    /\ call = "Bytes" /\ StreamIdle

(***************************************************************************)
(* diffb (bsdiff.go 50-256), one action per stretch of it.                 *)
(***************************************************************************)
Panic(at, what) ==
    /\ pc' = "panic"
    /\ fault' = [at |-> at, what |-> what]

\* lines 51-100: the suffix sort, the first header, the buffers
DiffBegin ==
    /\ pc = "diff"
    /\ LET q == qsufsort(oldbin) IN
       IF q.fault # ""
       THEN /\ Panic("qsufsort", q.fault)
            /\ UNCHANGED diffVars
       ELSE /\ iii' = q.I
            /\ header' = FirstHeader(newbin)
            /\ pf' = [buf |-> FirstHeader(newbin), pos |-> 32]
            /\ db' = Zeros(Len(newbin) + 1)
            /\ eb' = Zeros(Len(newbin) + 1)
            /\ d' = D0
            /\ emitted' = <<>>
            /\ pc' = "scan"
            /\ fault' = fault
    /\ UNCHANGED <<oldbin, newbin, patch, applyVars, codecVars, streamVars>>

\* lines 108-132: one pass of the outer loop up to line 135
DiffScan ==
    /\ pc = "scan"
    /\ d.scan < Len(newbin)
    /\ LET c == ScanPhase(d, iii, oldbin, newbin) IN
       IF c.fault # ""
       THEN /\ Panic("scan", c.fault)
            /\ d' = d
       ELSE /\ d' = [d EXCEPT !.scan = c.scan, !.ln = c.ln, !.pos = c.pos,
                              !.oldscore = c.oldscore]
            /\ pc' = IF c.ln # c.oldscore \/ c.scan = Len(newbin) THEN "emit" ELSE "scan"
            /\ fault' = fault
    /\ UNCHANGED <<oldbin, newbin, iii, db, eb, pf, header, emitted, patch,
                   applyVars, codecVars, streamVars>>

\* lines 135-218: the segment is extended and written
DiffEmit ==
    /\ pc = "emit"
    /\ LET e  == Extend(d, oldbin, newbin)
           tr == Triple(d, e)
           fd == FillDiff(d, e.lenf, db, oldbin, newbin)
           fe == FillExtra(d, e.lenf, tr.y, eb, newbin)
           w  == Write(pf, TripleBytes(tr))
       IN
       IF e.fault # "" \/ fd.fault # "" \/ fe.fault # "" \/ w.fault # ""
       THEN /\ Panic("emit", IF e.fault # "" THEN e.fault
                             ELSE IF fd.fault # "" THEN fd.fault
                             ELSE IF fe.fault # "" THEN fe.fault ELSE w.fault)
            /\ UNCHANGED <<d, db, eb, pf, emitted>>
       ELSE /\ db' = fd.buf
            /\ eb' = fe.buf
            /\ pf' = [buf |-> w.buf, pos |-> w.pos]
            /\ emitted' = Append(emitted, tr)
            /\ d' = [d EXCEPT !.dblen = d.dblen + e.lenf,
                              !.eblen = d.eblen + ((d.scan - e.lenb) - (d.lastscan + e.lenf)),
                              !.lastscan = d.scan - e.lenb, !.lastpos = d.pos - e.lenb,
                              !.lastoffset = d.pos - d.scan]
            /\ pc' = "scan"
            /\ fault' = fault
    /\ UNCHANGED <<oldbin, newbin, iii, header, patch, applyVars, codecVars, streamVars>>

\* lines 220-255: the streams are closed and the patch is returned, to Bytes
\* (line 19), whose result is then applied, or to Stream (line 43)
DiffFinish ==
    /\ pc = "scan"
    /\ ~(d.scan < Len(newbin))
    /\ LET w == Assemble(pf, header, db, d.dblen) IN
       IF w.fault # ""
       THEN /\ Panic("finish", w.fault)
            /\ UNCHANGED <<pf, patch>>
       ELSE /\ pf' = [buf |-> w.buf, pos |-> w.pos]
            /\ patch' = w.buf
            /\ pc' = IF call = "Stream" THEN "put" ELSE "apply"
            /\ fault' = fault
    /\ UNCHANGED <<oldbin, newbin, iii, d, db, eb, header, emitted, applyVars, codecVars,
                   streamVars>>


(***************************************************************************)
(* patchb (bspatch 78-235).                                                *)
(***************************************************************************)
\* io.NewSectionReader(patch, off, n) read through the identity decoder:
\* the bytes the stream can supply
Section(pt, off, n) ==
    IF off >= Len(pt) \/ n <= 0 THEN <<>>
    ELSE SubSeq(pt, off + 1, Min(off + n, Len(pt)))

\* the extra stream's section has length 1<<31: it runs to the end of the patch
SectionToEnd(pt, off) == Section(pt, off, Len(pt))

\* io.ReadFull(stream, bf[:n]) for n > 0, the stream being win read up to at:
\* io.EOF when no byte was read, io.ErrUnexpectedEOF when fewer than n were
ReadFull(win, at, bf, n) ==
    LET k == Min(n, Len(win) - at)
    IN  [bf  |-> [r \in 1..Len(bf) |-> IF r <= k THEN win[at + r] ELSE bf[r]],
         at  |-> at + k,
         err |-> IF k >= n THEN "" ELSE IF k = 0 THEN "EOF" ELSE "ErrUnexpectedEOF"]

\* the test of lines 148, 173 and 207: err != nil && err != io.EOF
ReadFailed(err) == err # "" /\ err # "EOF"

\* bytes.Reader.ReadAt(bf[:n], off) on the old file: the bytes copied
ReadAt(old, bf, n, off) ==
    IF IsNeg64(off) \/ ~Small64(off) THEN [bf |-> bf, n |-> 0]
    ELSE IF ToInt(off) >= Len(old) THEN [bf |-> bf, n |-> 0]
    ELSE LET k == Min(n, Len(old) - ToInt(off))
         IN  [bf |-> [r \in 1..Len(bf) |-> IF r <= k THEN old[ToInt(off) + r] ELSE bf[r]],
              n  |-> k]

\* a slip: the signs of the header's lengths are not looked at
HeaderErrorNoSign(pt) ==
    IF Len(pt) = 0 THEN "corrupt patch EOF"
    ELSE IF Len(pt) < 32 THEN "corrupt patch (n < 32)"
    ELSE IF SubSeq(pt, 1, 8) # Magic THEN "corrupt patch (header BSDIFF40)"
    ELSE ""

\* lines 99-118: the error the header is rejected with, "" when it is accepted
HeaderError(pt) ==
    IF Len(pt) = 0 THEN "corrupt patch EOF"
    ELSE IF Len(pt) < 32 THEN "corrupt patch (n < 32)"
    ELSE IF SubSeq(pt, 1, 8) # Magic THEN "corrupt patch (header BSDIFF40)"
    ELSE IF IsNeg64(offtin(SubSeq(pt, 9, 16)))
         THEN "corrupt patch (bzctrllen bzdatalen newsize)"
    ELSE IF IsNeg64(offtin(SubSeq(pt, 17, 24)))
         THEN "corrupt patch (bzctrllen bzdatalen newsize)"
    ELSE IF IsNeg64(offtin(SubSeq(pt, 25, 32)))
         THEN "corrupt patch (bzctrllen bzdatalen newsize)"
    ELSE ""

\* lines 145-157: the three reads of a control triple, from read i on.
\* s holds buf, cpos, ctrl, err and starved.
RECURSIVE ReadCtrl(_, _, _)
ReadCtrl(s, win, i) ==
    IF i > 2 THEN s
    ELSE LET r == ReadFull(win, s.cpos, s.buf, 8) IN
         IF ReadFailed(r.err)
         THEN [s EXCEPT !.buf = r.bf, !.cpos = r.at, !.err = r.err, !.starved = TRUE]
         ELSE ReadCtrl([s EXCEPT !.buf = r.bf, !.cpos = r.at,
                                 !.ctrl[i + 1] = offtin(r.bf),
                                 !.starved = s.starved \/ r.err # ""],
                       win, i + 1)

\* lines 164-167 and 202-205: readSize for the count cnt and the index i < cnt
ReadSize(cnt, i) ==
    IF Gt64(Sub64(cnt, FromInt(i)), FromInt(readBufSize)) THEN readBufSize
    ELSE ToInt(Sub64(cnt, FromInt(i)))

\* line 181-183: readBufPatch[j] += readBuf[j] for j < n
AddOld(bp, bo, n) ==
    [r \in 1..Len(bp) |-> IF r <= n THEN (bp[r] + bo[r]) % 256 ELSE bp[r]]

\* the model follows a run until newpos is more than MaxOverrun past newsize
MaxOverrun == 2

Error(at, what) ==
    /\ pc' = "error"
    /\ fault' = [at |-> at, what |-> what]

CtrlWin == Section(patch, 32, p.bzctrllen)

DiffWin == Section(patch, 32 + p.bzctrllen, p.bzdatalen)

ExtraWin == SectionToEnd(patch, 32 + p.bzctrllen + p.bzdatalen)

\* lines 79-141: the header is read and checked, the sink is preallocated
ApplyHeader ==
    /\ pc = "apply"
    /\ IF HeaderError(patch) # ""
       THEN /\ Error("header", HeaderError(patch))
            /\ UNCHANGED applyVars
       ELSE LET n == ToInt(offtin(SubSeq(patch, 25, 32)))
                w == WriteAt(W00, <<0>>, n - 1)
            IN  /\ p' = [P0 EXCEPT !.bzctrllen = ToInt(offtin(SubSeq(patch, 9, 16))),
                                   !.bzdatalen = ToInt(offtin(SubSeq(patch, 17, 24))),
                                   !.newsize = n]
                /\ buf' = Zeros(8)
                /\ readBuf' = Zeros(readBufSize)
                /\ readBufPatch' = Zeros(readBufSize)
                /\ writes' = {[off |-> n - 1, len |-> 1]}
                /\ IF w.fault # ""
                   THEN /\ Panic("prealloc", w.fault)
                        /\ res' = W00
                   ELSE /\ res' = [buf |-> w.buf, pos |-> w.pos]
                        /\ pc' = "loop"
                        /\ fault' = fault
    /\ UNCHANGED <<oldbin, newbin, patch, diffVars, codecVars, streamVars>>

\* lines 143-161: a control triple is read and checked
ApplyCtrl ==
    /\ pc = "loop"
    /\ p.newpos < p.newsize
    /\ LET s == ReadCtrl([buf |-> buf, cpos |-> p.cpos, ctrl |-> p.ctrl, err |-> "",
                          starved |-> p.starved], CtrlWin, 0)
           q == [p EXCEPT !.cpos = s.cpos, !.ctrl = s.ctrl, !.starved = s.starved]
       IN  /\ buf' = s.buf
           /\ IF s.err # ""
              THEN /\ Error("ctrl", s.err)
                   /\ p' = q
              ELSE IF Gt64(Add64(FromInt(p.newpos), s.ctrl[1]), FromInt(p.newsize))
              THEN /\ Error("ctrl", "corrupt patch (sanity check)")
                   /\ p' = q
              ELSE /\ p' = [q EXCEPT !.i = 0]
                   /\ pc' = "diffphase"
                   /\ fault' = fault
    /\ UNCHANGED <<oldbin, newbin, patch, diffVars, codecVars, streamVars, readBuf, readBufPatch,
                   res, writes>>

\* lines 163-191: one chunk of the diff stream is added to old and written
ApplyDiffChunk ==
    /\ pc = "diffphase"
    /\ Lt64(FromInt(p.i), p.ctrl[1])
    /\ p.newpos <= p.newsize + MaxOverrun
    /\ LET readSize == ReadSize(p.ctrl[1], p.i)
           r  == ReadFull(DiffWin, p.dpos, readBufPatch, readSize)
           ra == ReadAt(oldbin, readBuf, readSize, p.oldpos)
           bp == AddOld(r.bf, ra.bf, ra.n)
           w  == WriteAt(res, SubSeq(bp, 1, readSize), p.newpos)
           q  == [p EXCEPT !.dpos = r.at, !.starved = p.starved \/ r.err # ""]
       IN  IF ReadFailed(r.err)
           THEN /\ Error("diff", r.err)
                /\ p' = q
                /\ readBufPatch' = r.bf
                /\ UNCHANGED <<readBuf, res, writes>>
           ELSE /\ readBuf' = ra.bf
                /\ readBufPatch' = bp
                /\ writes' = writes \cup {[off |-> p.newpos, len |-> readSize]}
                /\ IF w.fault # ""
                   THEN /\ Panic("diff", w.fault)
                        /\ p' = q
                        /\ res' = res
                   ELSE /\ res' = [buf |-> w.buf, pos |-> w.pos]
                        /\ p' = [q EXCEPT !.newpos = p.newpos + readSize,
                                          !.oldpos = Add64(p.oldpos, FromInt(readSize)),
                                          !.i = p.i + readBufSize]
                        /\ UNCHANGED <<pc, fault>>
    /\ UNCHANGED <<oldbin, newbin, patch, diffVars, codecVars, streamVars, buf>>

\* lines 193-196: the diff loop is left, the second check
ApplyDiffEnd ==
    /\ pc = "diffphase"
    /\ ~Lt64(FromInt(p.i), p.ctrl[1])
    /\ IF Gt64(Add64(FromInt(p.newpos), p.ctrl[2]), FromInt(p.newsize))
       THEN /\ Error("extra", "corrupt patch newpos+ctrl[1] newsize")
            /\ p' = p
       ELSE /\ p' = [p EXCEPT !.i = 0]
            /\ pc' = "extraphase"
            /\ fault' = fault
    /\ UNCHANGED <<oldbin, newbin, patch, diffVars, codecVars, streamVars, buf, readBuf,
                   readBufPatch, res, writes>>

\* lines 201-218: one chunk of the extra stream is written
ApplyExtraChunk ==
    /\ pc = "extraphase"
    /\ Lt64(FromInt(p.i), p.ctrl[2])
    /\ p.newpos <= p.newsize + MaxOverrun
    /\ LET readSize == ReadSize(p.ctrl[2], p.i)
           r == ReadFull(ExtraWin, p.epos, readBuf, readSize)
           w == WriteAt(res, SubSeq(r.bf, 1, readSize), p.newpos)
           q == [p EXCEPT !.epos = r.at, !.starved = p.starved \/ r.err # ""]
       IN  /\ readBuf' = r.bf
           /\ IF ReadFailed(r.err)
              THEN /\ Error("extra", r.err)
                   /\ p' = q
                   /\ UNCHANGED <<res, writes>>
              ELSE /\ writes' = writes \cup {[off |-> p.newpos, len |-> readSize]}
                   /\ IF w.fault # ""
                      THEN /\ Panic("extra", w.fault)
                           /\ p' = q
                           /\ res' = res
                      ELSE /\ res' = [buf |-> w.buf, pos |-> w.pos]
                           /\ p' = [q EXCEPT !.newpos = p.newpos + readSize,
                                             !.oldpos = Add64(p.oldpos, FromInt(readSize)),
                                             !.i = p.i + readBufSize]
                           /\ UNCHANGED <<pc, fault>>
    /\ UNCHANGED <<oldbin, newbin, patch, diffVars, codecVars, streamVars, buf, readBufPatch>>

\* lines 219-221: the extra loop is left, oldpos is adjusted
ApplyAdjust ==
    /\ pc = "extraphase"
    /\ ~Lt64(FromInt(p.i), p.ctrl[2])
    /\ p' = [p EXCEPT !.oldpos = Add64(p.oldpos, Sub64(p.ctrl[3], p.ctrl[2]))]
    /\ pc' = "loop"
    /\ UNCHANGED <<oldbin, newbin, patch, diffVars, codecVars, streamVars, buf, readBuf,
                   readBufPatch, res, writes, fault>>

\* lines 223-234 and Bytes 39-46: the readers are closed, the sink is returned
ApplyClose ==
    /\ pc = "loop"
    /\ ~(p.newpos < p.newsize)
    /\ pc' = "done"
    /\ UNCHANGED <<oldbin, newbin, patch, diffVars, codecVars, streamVars, applyVars, fault>>

ApplyNext ==
    \/ ApplyHeader
    \/ ApplyCtrl
    \/ ApplyDiffChunk
    \/ ApplyDiffEnd
    \/ ApplyExtraChunk
    \/ ApplyAdjust
    \/ ApplyClose

\* bsdiff.Bytes and then bspatch.Bytes on what it returned
Next ==
    \/ DiffBegin
    \/ DiffScan
    \/ DiffEmit
    \/ DiffFinish
    \/ ApplyHeader
    \/ ApplyCtrl
    \/ ApplyDiffChunk
    \/ ApplyDiffEnd
    \/ ApplyExtraChunk
    \/ ApplyAdjust
    \/ ApplyClose

Spec == Init /\ [][Next]_vars

(***************************************************************************)
(* bspatch.Bytes on patches that bsdiff did not write.                     *)
(***************************************************************************)
MaxDiff == 3

MaxExtra == 1

MaxNewSize == 3

\* the largest int
Huge == <<Limb - 1, Limb - 1, Limb - 1, HalfLimb - 1>>

T(x, y, z) == <<FromInt(x), FromInt(y), FromInt(z)>>

Triples ==
    {T(0, 0, 0), T(1, 0, 0), T(0, 1, 0), T(1, 1, 0), T(2, 0, -1), T(-1, 1, 1),
     T(3, 0, 0), <<Huge, W0, W0>>}

CtrlSeqs ==
    {<<>>} \cup {<<t>> : t \in Triples} \cup {<<t, u>> : t \in Triples, u \in Triples}

RECURSIVE EncodeCtrl(_)
EncodeCtrl(ts) ==
    IF ts = <<>> THEN <<>>
    ELSE offtout(ts[1][1]) \o offtout(ts[1][2]) \o offtout(ts[1][3]) \o EncodeCtrl(Tail(ts))

DiffBytes(n) == [k \in 1..n |-> k]

ExtraBytes(n) == [k \in 1..n |-> 16 + k]

MkPatch(xx, yy, nn, body) == Magic \o offtout(xx) \o offtout(yy) \o offtout(nn) \o body

\* a header whose lengths are those of the streams that follow it
Framed ==
    {MkPatch(FromInt(24 * Len(ts)), FromInt(nd), FromInt(n),
             EncodeCtrl(ts) \o DiffBytes(nd) \o ExtraBytes(ne)) :
        ts \in CtrlSeqs, nd \in 0..MaxDiff, ne \in 0..MaxExtra, n \in 0..MaxNewSize}

BasePatch ==
    MkPatch(FromInt(24), FromInt(1), FromInt(2),
            EncodeCtrl(<<T(1, 1, 0)>>) \o DiffBytes(1) \o ExtraBytes(1))

\* the 8 bytes of zero with the sign bit set
MinusZero == <<0, 0, 0, 0, 0, 0, 0, 128>>

Unframed ==
    {SubSeq(BasePatch, 1, k) : k \in {0, 1, 8, 31, 32, 40, 44, 56, 57}}
    \cup {[BasePatch EXCEPT ![k] = (@ + 1) % 256] : k \in 1..8}
    \cup {MkPatch(FromInt(v), FromInt(1), FromInt(2), SubSeq(BasePatch, 33, 58)) : v \in {-1, -24}}
    \cup {MkPatch(FromInt(24), FromInt(v), FromInt(2), SubSeq(BasePatch, 33, 58)) : v \in {-1, -24}}
    \cup {MkPatch(FromInt(24), FromInt(1), FromInt(v), SubSeq(BasePatch, 33, 58)) : v \in {-1, -24}}
    \cup {MkPatch(FromInt(12), FromInt(1), FromInt(2), SubSeq(BasePatch, 33, 58))}
    \cup {Magic \o MinusZero \o MinusZero \o offtout(W0),
          Magic \o MinusZero \o MinusZero \o offtout(W1),
          Magic \o offtout(W0) \o offtout(W0) \o MinusZero}

OldFiles == {<<>>, <<5, 6, 7>>}

InitApply ==
    /\ pc = "apply"
    /\ oldbin \in OldFiles
    /\ newbin = <<>>
    /\ patch \in Framed \cup Unframed
    /\ InitRest
    /\ call = "Bytes" /\ StreamIdle

SpecApply == InitApply /\ [][ApplyNext]_vars

(***************************************************************************)
(* The integer codec on its own: offtout, then offtin.                     *)
(***************************************************************************)
LowLimbs == {0, 1, 255, 256, Limb - 1}

HighLimbs == {0, 1, HalfLimb - 1, HalfLimb, Limb - 1}

\* every int but the least
CodecInputs ==
    {<<a, b, c, e>> : a \in LowLimbs, b \in LowLimbs, c \in LowLimbs, e \in HighLimbs}
    \ {<<0, 0, 0, HalfLimb>>}

InitCodec ==
    /\ pc = "codec"
    /\ num \in CodecInputs
    /\ enc = <<>> /\ dec = W0
    /\ oldbin = <<>> /\ newbin = <<>> /\ patch = <<>>
    /\ iii = <<>> /\ d = D0 /\ db = <<>> /\ eb = <<>> /\ pf = W00 /\ header = <<>>
    /\ emitted = <<>>
    /\ p = P0 /\ buf = Zeros(8) /\ readBuf = Zeros(readBufSize)
    /\ readBufPatch = Zeros(readBufSize) /\ res = W00 /\ writes = {}
    /\ fault = NoFault
    /\ call = "" /\ StreamIdle

\* offtout(num, enc)
Offtout ==
    /\ pc = "codec"
    /\ enc' = offtout(num)
    /\ pc' = "encoded"
    /\ UNCHANGED <<oldbin, newbin, patch, diffVars, applyVars, streamVars, fault, num, dec>>

\* the other encoding of zero: the sign bit is set on a zero magnitude
SetSignOfZero ==
    /\ pc = "encoded"
    /\ enc = Zeros(8)
    /\ enc' = MinusZero
    /\ UNCHANGED <<pc, oldbin, newbin, patch, diffVars, applyVars, streamVars, fault, num, dec>>

\* dec = offtin(enc)
Offtin ==
    /\ pc = "encoded"
    /\ dec' = offtin(enc)
    /\ pc' = "decoded"
    /\ UNCHANGED <<oldbin, newbin, patch, diffVars, applyVars, streamVars, fault, num, enc>>

CodecNext == Offtout \/ SetSignOfZero \/ Offtin

SpecCodec == InitCodec /\ [][CodecNext]_vars

(***************************************************************************)
(* Stream (bsdiff.go 22-48): the readers are copied, diffb runs, and       *)
(* putWriter (478-504) hands the patch to the writer.                      *)
(***************************************************************************)
\* buffersize is 1024 * 16 (line 12); the model's buffer is this long, so that
\* patches fall below it, on it, between it and its double, and above that
buffersize == 57

\* lines 506-523 over a reader that holds data: rdr.Read fills at most
\* buffersize bytes, which are copied to target[offs:], until io.EOF
RECURSIVE copyReader(_, _, _)
copyReader(target, data, o) ==
    LET nread == Min(buffersize, Len(data) - o)
    IN  IF nread <= 0 THEN target
        ELSE copyReader(SubSeq(target, 1, o) \o SubSeq(data, o + 1, o + nread)
                            \o SubSeq(target, o + nread + 1, Len(target)),
                        data, o + nread)

\* a pair whose patch is longer than two buffers
TwoMatches == <<LongOld, <<0>> \o SubSeq(LongOld, 1, 9) \o <<0>> \o SubSeq(LongOld, 1, 9)>>

\* Stream(oldbin, newbin, diffbin) is called on readers over old and new, and
\* on a writer that takes every write in full
InitStream ==
    /\ pc = "stream"
    /\ \E pair \in (BytesUpTo(MaxOld) \X BytesUpTo(MaxNew)) \cup LongPairs \cup {TwoMatches} :
          rdr = [old |-> pair[1], new |-> pair[2]]
    /\ oldbin = <<>> /\ newbin = <<>>
    /\ patch = <<>>
    /\ InitRest
    /\ call = "Stream" /\ offs = 0 /\ out = <<>>

\* lines 24-42: pold and pnew are made as long as the readers and filled
StreamRead ==
    /\ pc = "stream"
    /\ oldbin' = copyReader(Zeros(Len(rdr.old)), rdr.old, 0)
    /\ newbin' = copyReader(Zeros(Len(rdr.new)), rdr.new, 0)
    /\ pc' = "diff"
    /\ UNCHANGED <<patch, diffVars, applyVars, codecVars, streamVars, fault>>

\* lines 479-489: a patch shorter than buffersize goes out in one Write
PutWhole ==
    /\ pc = "put"
    /\ Len(patch) < buffersize
    /\ out' = Append(out, patch)
    /\ pc' = "written"
    /\ UNCHANGED <<oldbin, newbin, patch, diffVars, applyVars, codecVars, call, rdr, offs,
                   fault>>

\* lines 492-502: one pass of the loop; b[offs:n] panics when offs > n, and
\* the writer returns the length of what it was handed
PutChunk ==
    /\ pc = "put"
    /\ ~(Len(patch) < buffersize)
    /\ offs < Len(patch)
    /\ LET n == Min(buffersize, Len(patch) - offs) IN
       IF offs > n
       THEN /\ Panic("putWriter", "b")
            /\ UNCHANGED <<offs, out>>
       ELSE LET n2 == Len(Slice(patch, offs, n)) IN
            /\ out' = Append(out, Slice(patch, offs, n))
            /\ IF n2 # n
               THEN /\ Error("putWriter", "bytes written")
                    /\ offs' = offs
               ELSE /\ offs' = offs + n
                    /\ pc' = pc
                    /\ fault' = fault
    /\ UNCHANGED <<oldbin, newbin, patch, diffVars, applyVars, codecVars, call, rdr>>

\* line 503: the loop is over
PutReturn ==
    /\ pc = "put"
    /\ ~(Len(patch) < buffersize)
    /\ ~(offs < Len(patch))
    /\ pc' = "written"
    /\ UNCHANGED <<oldbin, newbin, patch, diffVars, applyVars, codecVars, streamVars, fault>>

StreamNext ==
    \/ StreamRead
    \/ DiffBegin
    \/ DiffScan
    \/ DiffEmit
    \/ DiffFinish
    \/ PutWhole
    \/ PutChunk
    \/ PutReturn

SpecStream == InitStream /\ [][StreamNext]_vars

(***************************************************************************)
(* The properties.                                                         *)
(***************************************************************************)

\* C1: round trip.  For all old and new, diff returns a patch without
\* failing, and apply on old and that patch returns exactly new without
\* failing.
C1_RoundTrip ==
    /\ pc \notin {"panic", "error"}
    /\ pc = "done" => res.buf = newbin

\* C2: patch layout.  What diff returns is the 32-byte header, then the
\* control stream, then the diff stream, then the extra stream; the header
\* holds "BSDIFF40", the length X of the control stream, the length Y of the
\* diff stream and |new|; the extra stream holds all eblen extra bytes.
C2_PatchLayout ==
    patch # <<>> =>
        LET RECURSIVE CtrlBytes(_)
            CtrlBytes(ts) ==
                IF ts = <<>> THEN <<>> ELSE TripleBytes(ts[1]) \o CtrlBytes(Tail(ts))
            xx == 24 * Len(emitted)
            yy == d.dblen
        IN  /\ Len(patch) = 32 + xx + yy + d.eblen
            /\ SubSeq(patch, 1, 8) = Magic
            /\ offtin(SubSeq(patch, 9, 16)) = FromInt(xx)
            /\ offtin(SubSeq(patch, 17, 24)) = FromInt(yy)
            /\ offtin(SubSeq(patch, 25, 32)) = FromInt(Len(newbin))
            /\ SubSeq(patch, 33, 32 + xx) = CtrlBytes(emitted)
            /\ SubSeq(patch, 33 + xx, 32 + xx + yy) = SubSeq(db, 1, d.dblen)
            /\ SubSeq(patch, 33 + xx + yy, Len(patch)) = SubSeq(eb, 1, d.eblen)

\* C3: a stream that ends early.  Once the control, diff or extra stream has
\* supplied fewer bytes than a read demanded of it, apply has returned an
\* error: it neither succeeds nor goes on with the bytes read before.
C3_StarvedIsError == p.starved => pc = "error"

\* C4: header rejection.  When the patch has fewer than 32 bytes, or does
\* not begin with "BSDIFF40", or one of its three header lengths decodes to
\* a negative number, apply returns an error and has written nothing to the
\* sink.
C4_HeaderRejected ==
    (/\ pc # "apply"
     /\ \/ Len(patch) < 32
        \/ SubSeq(patch, 1, 8) # Magic
        \/ \E k \in {9, 17, 25} : IsNeg64(offtin(SubSeq(patch, k, k + 7))))
    => (pc = "error" /\ writes = {} /\ res = W00)

\* C4 happens: a patch whose newsize is -1 has been rejected
C4_Witness ==
    /\ pc = "error"
    /\ Len(patch) >= 32
    /\ SubSeq(patch, 1, 8) = Magic
    /\ offtin(SubSeq(patch, 25, 32)) = FromInt(-1)

\* C5: diff is total.  Whatever old and new are, the scan, the search and
\* the emission of diff index old, new, I, db and eb inside their bounds:
\* diff does not fail there.  (The suffix sort is C6's.)
C5_DiffTotal == ~(pc = "panic" /\ fault.at \in {"scan", "emit", "finish"})

\* C6: the suffix array.  qsufsort ends without failing, and leaves in I a
\* permutation of 0..n in which the suffixes of old stand in lexicographic
\* order.
C6_SuffixArray ==
    pc # "diff" =>
        LET n == Len(oldbin)
            Suffix(k) == SubSeq(oldbin, k + 1, n)
            Leq(a, b) ==
                \E m \in 0..Min(Len(a), Len(b)) :
                    /\ \A k \in 1..m : a[k] = b[k]
                    /\ m = Len(a) \/ (m < Len(b) /\ a[m + 1] < b[m + 1])
        IN  /\ fault.at # "qsufsort"
            /\ Len(iii) = n + 1
            /\ {iii[r] : r \in 1..(n + 1)} = 0..n
            /\ \A r \in 1..(n + 1) : \A r2 \in r..(n + 1) :
                   Leq(Suffix(iii[r]), Suffix(iii[r2]))

\* C7: the integer codec.  For every int n but the least, offtin(offtout(n))
\* is n; offtout writes the magnitude of n least significant byte first and
\* the sign of n in bit 7 of byte 7; offtin decodes zero with the sign bit
\* set to 0.
C7_Codec ==
    /\ pc = "decoded" => dec = num
    /\ (pc = "encoded" /\ enc # MinusZero) =>
           /\ Abs64(num) = <<enc[1] + 256 * enc[2], enc[3] + 256 * enc[4],
                             enc[5] + 256 * enc[6], enc[7] + 256 * (enc[8] % 128)>>
           /\ enc[8] >= 128 <=> IsNeg64(num)
    /\ (pc = "decoded" /\ enc = MinusZero) => dec = W0

\* C7 happens: a negative number whose magnitude needs all 8 bytes has been
\* encoded and decoded
C7_Witness == pc = "decoded" /\ IsNeg64(num) /\ enc[8] > 128 /\ enc[1] # 0

\* C8: the position of apply.  In every state of apply 0 <= newpos <=
\* newsize, and no write to the sink covers an offset at or beyond newsize,
\* whatever the control triples are.  (Stated of the runs in which every
\* stream has supplied the bytes demanded of it; the others are C3's.)
C8_Position ==
    ~p.starved =>
    /\ 0 <= p.newpos
    /\ p.newpos <= p.newsize
    /\ \A w \in writes : w.off + w.len <= p.newsize

\* C9: the triples diff emits.  Each has x >= 0 and y >= 0; the sum of x + y
\* over the triples emitted so far never exceeds |new| and is |new| when
\* diff returns; dblen is the sum of the x and eblen the sum of the y.
C9_Emission ==
    LET RECURSIVE SumX(_)
        SumX(ts) == IF ts = <<>> THEN 0 ELSE ts[1].x + SumX(Tail(ts))
        RECURSIVE SumY(_)
        SumY(ts) == IF ts = <<>> THEN 0 ELSE ts[1].y + SumY(Tail(ts))
    IN  /\ \A k \in 1..Len(emitted) :
               /\ emitted[k].x >= 0
               /\ emitted[k].y >= 0
               /\ SumX(SubSeq(emitted, 1, k)) + SumY(SubSeq(emitted, 1, k)) <= Len(newbin)
        /\ d.dblen = SumX(emitted)
        /\ d.eblen = SumY(emitted)
        /\ patch # <<>> => SumX(emitted) + SumY(emitted) = Len(newbin)

\* C9 happens: diff has returned after emitting two triples, one of them
\* with diff bytes and extra bytes
C9_Witness ==
    /\ patch # <<>>
    /\ Len(emitted) >= 2
    /\ \E k \in 1..Len(emitted) : emitted[k].x > 0 /\ emitted[k].y > 0

\* C10: the empty target.  On a patch whose header is accepted and declares
\* newsize = 0, apply does not fail, and what it returns is empty.
C10_EmptyTarget ==
    (HeaderError(patch) = "" /\ offtin(SubSeq(patch, 25, 32)) = W0)
    => (pc \notin {"panic", "error"} /\ (pc = "done" => res.buf = <<>>))

\* C11: Stream on readers over old and new and a writer that takes every write
\* in full hands the writer the patch Bytes(old, new) returns, and no error:
\* diffb runs on the bytes of the readers, putWriter neither panics nor
\* reports an error once diffb has returned the patch, and when Stream has
\* returned the slices it wrote are the consecutive slices of the patch, of
\* at most buffersize bytes each, up to its end.
C11_StreamWritesPatch ==
    /\ ~(pc \in {"panic", "error"} /\ fault.at = "putWriter")
    /\ pc \in {"diff", "scan", "emit", "put", "written"} =>
          (oldbin = rdr.old /\ newbin = rdr.new)
    /\ pc = "written" =>
          /\ \A k \in 1..Len(out) :
                out[k] = SubSeq(patch, (k - 1) * buffersize + 1,
                                Min(k * buffersize, Len(patch)))
          /\ Len(out) * buffersize >= Len(patch)
=============================================================================
